---- MODULE Spec2Model ----
(***************************************************************************)
(* Monotree: a bitwise-radix Sparse Merkle Tree over a content-addressed  *)
(* key-value backend.  The model keeps the byte-level node serialization  *)
(* of node.rs / bits.rs, the recursive engine of tree.rs and the Merkle   *)
(* proof generation / verification.                                       *)
(*                                                                         *)
(* Conventions:                                                            *)
(*   - a byte slice is a sequence of naturals 0..255; Slice(s, a, b) is   *)
(*     Rust's &s[a..b] (0-based, half open);                               *)
(*   - Option<T> is a sequence of length 0 (None) or 1 (Some(x));          *)
(*   - a Range is [start, end]; Bits is [path, range]; Unit is             *)
(*     [hash, bits]; a Node is [kind, lc, rc];                             *)
(*   - the engine's mutable state {db, hasher} is threaded through the    *)
(*     recursive operators as a record st = [db, tbl];                     *)
(*   - a Rust panic (expect / unreachable!) is the flag `panic` of the    *)
(*     returned record.                                                    *)
(***************************************************************************)
EXTENDS Integers, Sequences, FiniteSets, TLC

\* lib.rs: pub const HASH_LEN.  The source sets 32; the engine computes every
\* offset from HASH_LEN and the key length, and the model runs it with a
\* narrower hash so that whole trees can be enumerated.
HASH_LEN == 3

None == <<>>
Some(x) == <<x>>

\* Rust &s[a..b]
Slice(s, a, b) == SubSeq(s, a + 1, b)

\* Rust [x; n]
Repeat(x, n) == [i \in 1..n |-> x]

\* `let x = v; F(x)`: v is evaluated once and F applied to its value
Eval(v, F(_)) == CHOOSE y \in {F(x) : x \in {v}} : TRUE

(***************************************************************************)
(* utils: bit indexing and byte-range arithmetic                           *)
(***************************************************************************)

\* the i-th bit of bytes, MSB first within each byte
bit(bytes, i) == ((bytes[(i \div 8) + 1] \div (2 ^ (7 - (i % 8)))) % 2) = 1

\* number of whole bytes covering the bit range [start, end)
nbytes_across(start, end) ==
    LET n == (end - (start - (start % 8))) \div 8
    IN  IF end % 8 = 0 THEN n ELSE n + 1

\* byte offset and new bit range of a shifted view
offsets(range, n, tail) ==
    LET x == (range.start + n) % 65536
    IN  IF tail
        THEN [q |-> nbytes_across(range.start, x),
              range |-> [start |-> range.start, end |-> x]]
        ELSE [q |-> x \div 8,
              range |-> [start |-> x % 8, end |-> range.end - 8 * (x \div 8)]]

\* length of the longest common prefix of two bit ranges: the number of
\* leading positions i < min(len) at which the two ranges carry equal bits
len_lcp(a, m, b, n) ==
    LET la == m.end - m.start
        lb == n.end - n.start
        l == IF la < lb THEN la ELSE lb
        differ == {i \in 0..(l - 1) : bit(a, m.start + i) # bit(b, n.start + i)}
    IN  IF differ = {} THEN l
        ELSE CHOOSE i \in differ : \A j \in differ : i <= j

\* big-endian bytes -> u16
bytes_to_int(bytes) == bytes[1] * 256 + bytes[2]

\* u16::to_be_bytes
to_be_bytes(x) == <<(x \div 256) % 256, x % 256>>

\* lexicographic comparison of two byte sequences of equal length
RECURSIVE bytes_less(_, _)
bytes_less(a, b) ==
    IF a = <<>> \/ b = <<>> THEN FALSE
    ELSE IF Head(a) # Head(b) THEN Head(a) < Head(b)
    ELSE bytes_less(Tail(a), Tail(b))

\* indices 1..Len(keys), ordered by ascending key, ties by position
get_sorted_indices(keys) ==
    LET n == Len(keys)
        before(i, j) == bytes_less(keys[i], keys[j]) \/ (keys[i] = keys[j] /\ i < j)
        rank(i) == Cardinality({j \in 1..n : before(j, i)})
    IN  [p \in 1..n |-> CHOOSE i \in 1..n : rank(i) = p - 1]

(***************************************************************************)
(* bits.rs                                                                 *)
(***************************************************************************)

Bits_new(bytes) ==
    [path |-> bytes, range |-> [start |-> 0, end |-> (Len(bytes) * 8) % 65536]]

Bits_to_bytes(bits) ==
    to_be_bytes(bits.range.start) \o to_be_bytes(bits.range.end) \o bits.path

Bits_first(bits) == bit(bits.path, bits.range.start)

Bits_len(bits) == bits.range.end - bits.range.start

\* shift() whose head shift stops one bit early
Bits_shift_one_short(bits, n, tail) ==
    LET o == offsets(bits.range, IF tail THEN n ELSE n - 1, tail)
    IN  IF tail
        THEN [path |-> Slice(bits.path, 0, o.q), range |-> o.range]
        ELSE [path |-> Slice(bits.path, o.q, Len(bits.path)), range |-> o.range]

Bits_shift(bits, n, tail) ==
    LET o == offsets(bits.range, n, tail)
    IN  IF tail
        THEN [path |-> Slice(bits.path, 0, o.q), range |-> o.range]
        ELSE [path |-> Slice(bits.path, o.q, Len(bits.path)), range |-> o.range]

Bits_len_common_bits(a, b) == len_lcp(a.path, a.range, b.path, b.range)

(***************************************************************************)
(* node.rs                                                                 *)
(***************************************************************************)

Unit(hash, bits) == [hash |-> hash, bits |-> bits]

Soft(cell) == [kind |-> "Soft", lc |-> cell, rc |-> None]
Hard(lc, rc) == [kind |-> "Hard", lc |-> lc, rc |-> rc]
Unreachable == [kind |-> "Unreachable", lc |-> None, rc |-> None]

Node_new(lc, rc) ==
    IF lc # None /\ rc = None THEN Soft(lc)
    ELSE IF lc = None /\ rc # None THEN Soft(rc)
    ELSE IF lc # None /\ rc # None THEN Hard(lc, rc)
    ELSE Unreachable

\* parse_bytes() that reads one path byte less than the range spans
Node_parse_bytes_short(bytes, right) ==
    LET l == Len(bytes)
        i == IF right THEN 0 ELSE HASH_LEN
        hash == IF right THEN Slice(bytes, l - HASH_LEN, l) ELSE Slice(bytes, 0, HASH_LEN)
        start == bytes_to_int(Slice(bytes, i, i + 2))
        end == bytes_to_int(Slice(bytes, i + 2, i + 4))
        n == nbytes_across(start, end) - 1
    IN  [cell |-> Some(Unit(hash, [path |-> Slice(bytes, i + 4, i + 4 + n),
                                   range |-> [start |-> start, end |-> end]])),
         size |-> i + 4 + n]

\* (cell, number of bytes consumed)
Node_parse_bytes(bytes, right) ==
    LET l == Len(bytes)
        i == IF right THEN 0 ELSE HASH_LEN
        hash == IF right THEN Slice(bytes, l - HASH_LEN, l) ELSE Slice(bytes, 0, HASH_LEN)
        start == bytes_to_int(Slice(bytes, i, i + 2))
        end == bytes_to_int(Slice(bytes, i + 2, i + 4))
        n == nbytes_across(start, end)
    IN  [cell |-> Some(Unit(hash, [path |-> Slice(bytes, i + 4, i + 4 + n),
                                   range |-> [start |-> start, end |-> end]])),
         size |-> i + 4 + n]

Node_from_bytes(bytes) ==
    IF bytes = <<>> THEN Unreachable
    ELSE IF bytes[Len(bytes)] = 0
    THEN Soft(Node_parse_bytes(Slice(bytes, 0, Len(bytes) - 1), FALSE).cell)
    ELSE IF bytes[Len(bytes)] = 1
    THEN LET l == Node_parse_bytes(bytes, FALSE)
             r == Node_parse_bytes(Slice(bytes, l.size, Len(bytes) - 1), TRUE)
         IN  Hard(l.cell, r.cell)
    ELSE Unreachable

\* (matched, other) for the descent direction `right`
Node_cells_from_bytes(bytes, right) ==
    LET node == Node_from_bytes(bytes)
    IN  IF node.kind = "Hard" /\ right THEN <<node.rc, node.lc>>
        ELSE <<node.lc, node.rc>>

\* to_bytes() that writes the two units in the order they were given
Node_to_bytes_unswapped(node) ==
    IF node.kind = "Soft"
    THEN LET unit == node.lc[1]
         IN  unit.hash \o Bits_to_bytes(unit.bits) \o <<0>>
    ELSE LET lu == node.lc[1]
             ru == node.rc[1]
         IN  lu.hash \o Bits_to_bytes(lu.bits) \o Bits_to_bytes(ru.bits) \o ru.hash \o <<1>>

Node_to_bytes(node) ==
    IF node.kind = "Soft"
    THEN LET unit == node.lc[1]
         IN  unit.hash \o Bits_to_bytes(unit.bits) \o <<0>>
    ELSE LET swap == ~Bits_first(node.rc[1].bits)
             lu == IF swap THEN node.rc[1] ELSE node.lc[1]
             ru == IF swap THEN node.lc[1] ELSE node.rc[1]
         IN  lu.hash \o Bits_to_bytes(lu.bits) \o Bits_to_bytes(ru.bits) \o ru.hash \o <<1>>

(***************************************************************************)
(* hasher.rs: the digest is modelled as a collision-free function.  tbl is *)
(* the sequence of byte strings digested so far; the digest of a byte      *)
(* string is the HASH_LEN-byte big-endian encoding of its position in tbl, *)
(* so equal inputs get equal digests and distinct inputs distinct ones.    *)
(***************************************************************************)

hash_of_index(i) ==
    [j \in 1..HASH_LEN |->
        IF j = HASH_LEN THEN i % 256
        ELSE IF j = HASH_LEN - 1 THEN (i \div 256) % 256
        ELSE 0]

digest_index(tbl, bytes) ==
    IF \E i \in 1..Len(tbl) : tbl[i] = bytes
    THEN CHOOSE i \in 1..Len(tbl) : tbl[i] = bytes
    ELSE Len(tbl) + 1

digest(tbl, bytes) == hash_of_index(digest_index(tbl, bytes))

\* the table after digesting bytes
digested(tbl, bytes) ==
    IF \E i \in 1..Len(tbl) : tbl[i] = bytes THEN tbl ELSE Append(tbl, bytes)

(***************************************************************************)
(* database: the in-memory backend, a map from hash to serialized node     *)
(***************************************************************************)

db_get(db, key) == IF key \in DOMAIN db THEN Some(db[key]) ELSE None

db_put(db, key, value) == (key :> value) @@ db

init_batch(db) == db

finish_batch(db) == db

(***************************************************************************)
(* tree.rs: the engine.  Every operator takes the engine state st and      *)
(* returns [st, val, panic]: the state after the call, the returned        *)
(* Option, and whether the call panicked.                                  *)
(***************************************************************************)

Ret(st, val) == [st |-> st, val |-> val, panic |-> FALSE]
Panic(st) == [st |-> st, val |-> None, panic |-> TRUE]

\* put_node() on a backend that keeps the newest entry only
put_node_fresh_db(st, node) ==
    IF node.kind = "Unreachable" THEN Panic(st)
    ELSE Eval(Node_to_bytes(node), LAMBDA bytes :
         Eval(digest(st.tbl, bytes), LAMBDA hash :
              Ret([db |-> (hash :> bytes), tbl |-> digested(st.tbl, bytes)],
                  Some(hash))))

put_node(st, node) ==
    IF node.kind = "Unreachable" THEN Panic(st)
    ELSE Eval(Node_to_bytes(node), LAMBDA bytes :
         Eval(digest(st.tbl, bytes), LAMBDA hash :
              Ret([db |-> db_put(st.db, hash, bytes), tbl |-> digested(st.tbl, bytes)],
                  Some(hash))))

\* put(), the split-node arm: the matched unit and the new leaf become the
\* two children of a new Hard node, which hangs under their common prefix
put_split_keeps_path(st, unit, rc, bits, leaf, n) ==
    LET ru == Unit(leaf, Bits_shift(bits, n, FALSE))
        lu == Unit(unit.hash, unit.bits)
    IN  Eval(put_node(st, Node_new(Some(lu), Some(ru))), LAMBDA r :
        IF r.panic \/ r.val = None THEN Panic(r.st)
        ELSE put_node(r.st,
                 Node_new(Some(Unit(r.val[1], Bits_shift(unit.bits, n, TRUE))), rc)))

\* put(), the split-node arm with a common prefix that is one bit short
put_split_short_prefix(st, unit, rc, bits, leaf, n) ==
    LET ru == Unit(leaf, Bits_shift(bits, n, FALSE))
        lu == Unit(unit.hash, Bits_shift(unit.bits, n, FALSE))
    IN  Eval(put_node(st, Node_new(Some(lu), Some(ru))), LAMBDA r :
        IF r.panic \/ r.val = None THEN Panic(r.st)
        ELSE put_node(r.st,
                 Node_new(Some(Unit(r.val[1], Bits_shift(unit.bits, n - 1, TRUE))), rc)))

put_split(st, unit, rc, bits, leaf, n) ==
    LET ru == Unit(leaf, Bits_shift(bits, n, FALSE))
        lu == Unit(unit.hash, Bits_shift(unit.bits, n, FALSE))
    IN  Eval(put_node(st, Node_new(Some(lu), Some(ru))), LAMBDA r :
        IF r.panic \/ r.val = None THEN Panic(r.st)
        ELSE put_node(r.st,
                 Node_new(Some(Unit(r.val[1], Bits_shift(unit.bits, n, TRUE))), rc)))

\* put() whose replacement arm writes the new leaf without its sibling
RECURSIVE put_replace_drops_sibling(_, _, _, _)
put_replace_drops_sibling(st, root, bits, leaf) ==
    IF db_get(st.db, root) = None THEN Panic(st)
    ELSE
    Eval(Node_cells_from_bytes(db_get(st.db, root)[1], Bits_first(bits)), LAMBDA cells :
    LET lc == cells[1]
        rc == cells[2]
    IN  IF lc = None THEN Panic(st)
        ELSE
        LET unit == lc[1]
        IN  Eval(Bits_len_common_bits(unit.bits, bits), LAMBDA n :
            IF n = 0
            THEN put_node(st, Node_new(lc, Some(Unit(leaf, bits))))
            ELSE IF n = Bits_len(bits)
            THEN put_node(st, Node_new(Some(Unit(leaf, bits)), None))
            ELSE IF n = Bits_len(unit.bits)
            THEN Eval(put_replace_drops_sibling(st, unit.hash, Bits_shift(bits, n, FALSE), leaf),
                      LAMBDA r :
                 IF r.panic \/ r.val = None THEN Panic(r.st)
                 ELSE put_node(r.st, Node_new(Some(Unit(r.val[1], unit.bits)), rc)))
            ELSE put_split(st, unit, rc, bits, leaf, n)))

RECURSIVE put(_, _, _, _)
put(st, root, bits, leaf) ==
    IF db_get(st.db, root) = None THEN Panic(st)
    ELSE
    Eval(Node_cells_from_bytes(db_get(st.db, root)[1], Bits_first(bits)), LAMBDA cells :
    LET lc == cells[1]
        rc == cells[2]
    IN  IF lc = None THEN Panic(st)
        ELSE
        LET unit == lc[1]
        IN  Eval(Bits_len_common_bits(unit.bits, bits), LAMBDA n :
            IF n = 0
            THEN put_node(st, Node_new(lc, Some(Unit(leaf, bits))))
            ELSE IF n = Bits_len(bits)
            THEN put_node(st, Node_new(Some(Unit(leaf, bits)), rc))
            ELSE IF n = Bits_len(unit.bits)
            THEN Eval(put(st, unit.hash, Bits_shift(bits, n, FALSE), leaf), LAMBDA r :
                 IF r.panic \/ r.val = None THEN Panic(r.st)
                 ELSE put_node(r.st, Node_new(Some(Unit(r.val[1], unit.bits)), rc)))
            ELSE put_split(st, unit, rc, bits, leaf, n)))

insert(st, root, key, leaf) ==
    IF root = None
    THEN put_node(st, Node_new(Some(Unit(leaf, Bits_new(key))), None))
    ELSE put(st, root[1], Bits_new(key), leaf)

\* find_key() that answers with the unit it stopped at when the paths diverge
RECURSIVE find_key_ignores_mismatch(_, _, _)
find_key_ignores_mismatch(st, root, bits) ==
    IF db_get(st.db, root) = None THEN Panic(st)
    ELSE
    Eval(Node_cells_from_bytes(db_get(st.db, root)[1], Bits_first(bits))[1], LAMBDA cell :
        IF cell = None THEN Panic(st)
        ELSE
        LET unit == cell[1]
        IN  Eval(Bits_len_common_bits(unit.bits, bits), LAMBDA n :
            IF n = Bits_len(bits) THEN Ret(st, Some(unit.hash))
            ELSE IF n = Bits_len(unit.bits)
            THEN find_key_ignores_mismatch(st, unit.hash, Bits_shift(bits, n, FALSE))
            ELSE Ret(st, Some(unit.hash))))

RECURSIVE find_key(_, _, _)
find_key(st, root, bits) ==
    IF db_get(st.db, root) = None THEN Panic(st)
    ELSE
    Eval(Node_cells_from_bytes(db_get(st.db, root)[1], Bits_first(bits))[1], LAMBDA cell :
        IF cell = None THEN Panic(st)
        ELSE
        LET unit == cell[1]
        IN  Eval(Bits_len_common_bits(unit.bits, bits), LAMBDA n :
            IF n = Bits_len(bits) THEN Ret(st, Some(unit.hash))
            ELSE IF n = Bits_len(unit.bits)
            THEN find_key(st, unit.hash, Bits_shift(bits, n, FALSE))
            ELSE Ret(st, None)))

get(st, root, key) ==
    IF root = None THEN Ret(st, None)
    ELSE find_key(st, root[1], Bits_new(key))

\* delete_key(), the exact-hit arm: the sibling alone remains, if there is one
delete_hit_drops_sibling(st, rc) == Ret(st, None)

delete_hit(st, rc) ==
    IF rc # None THEN put_node(st, Node_new(None, rc)) ELSE Ret(st, None)

\* delete_key(), after the recursive call returned r: rebuild this node
delete_wind_drops_sibling(r, unit, rc) ==
    IF r.panic THEN r
    ELSE IF r.val = None /\ rc = None THEN Ret(r.st, None)
    ELSE IF r.val = None THEN put_node(r.st, Node_new(None, rc))
    ELSE put_node(r.st, Node_new(Some(Unit(r.val[1], unit.bits)), None))

delete_wind(r, unit, rc) ==
    IF r.panic THEN r
    ELSE IF r.val = None /\ rc = None THEN Ret(r.st, None)
    ELSE IF r.val = None THEN put_node(r.st, Node_new(None, rc))
    ELSE put_node(r.st, Node_new(Some(Unit(r.val[1], unit.bits)), rc))

RECURSIVE delete_key(_, _, _)
delete_key(st, root, bits) ==
    IF db_get(st.db, root) = None THEN Panic(st)
    ELSE
    Eval(Node_cells_from_bytes(db_get(st.db, root)[1], Bits_first(bits)), LAMBDA cells :
    LET lc == cells[1]
        rc == cells[2]
    IN  IF lc = None THEN Panic(st)
        ELSE
        LET unit == lc[1]
        IN  Eval(Bits_len_common_bits(unit.bits, bits), LAMBDA n :
            IF n = Bits_len(bits)
            THEN delete_hit(st, rc)
            ELSE IF n = Bits_len(unit.bits)
            THEN Eval(delete_key(st, unit.hash, Bits_shift(bits, n, FALSE)), LAMBDA r :
                      delete_wind(r, unit, rc))
            ELSE Ret(st, None)))

remove(st, root, key) ==
    IF root = None THEN Ret(st, None)
    ELSE delete_key(st, root[1], Bits_new(key))

\* batch insert: single-key inserts in ascending key order
RECURSIVE inserts_loop(_, _, _, _, _, _)
inserts_loop(st, root, keys, leaves, indices, j) ==
    IF j > Len(indices) THEN Ret(st, root)
    ELSE Eval(insert(st, root, keys[indices[j]], leaves[indices[j]]), LAMBDA r :
              IF r.panic THEN r
              ELSE inserts_loop(r.st, r.val, keys, leaves, indices, j + 1))

\* inserts() without the sort: the pairs are applied in input order
inserts_unsorted(st, root, keys, leaves) ==
    Eval(inserts_loop([st EXCEPT !.db = init_batch(st.db)], root, keys, leaves,
                      [i \in 1..Len(keys) |-> i], 1),
         LAMBDA r :
             IF r.panic THEN r
             ELSE Ret([r.st EXCEPT !.db = finish_batch(r.st.db)], r.val))

inserts(st, root, keys, leaves) ==
    Eval(get_sorted_indices(keys), LAMBDA indices :
    Eval(inserts_loop([st EXCEPT !.db = init_batch(st.db)], root, keys, leaves, indices, 1),
         LAMBDA r :
             IF r.panic THEN r
             ELSE Ret([r.st EXCEPT !.db = finish_batch(r.st.db)], r.val)))

\* gets() that pushes each result in front of the earlier ones
RECURSIVE gets_loop_reversed(_, _, _, _, _)
gets_loop_reversed(st, root, keys, j, leaves) ==
    IF j > Len(keys) THEN Ret(st, leaves)
    ELSE Eval(get(st, root, keys[j]), LAMBDA r :
              IF r.panic THEN r
              ELSE gets_loop_reversed(r.st, root, keys, j + 1, <<r.val>> \o leaves))

\* batch get: one get per key, in input order, without batching
RECURSIVE gets_loop(_, _, _, _, _)
gets_loop(st, root, keys, j, leaves) ==
    IF j > Len(keys) THEN Ret(st, leaves)
    ELSE Eval(get(st, root, keys[j]), LAMBDA r :
              IF r.panic THEN r
              ELSE gets_loop(r.st, root, keys, j + 1, Append(leaves, r.val)))

gets(st, root, keys) == gets_loop(st, root, keys, 1, <<>>)

\* removes() that passes the root of the call to every single-key remove
RECURSIVE removes_loop_keeps_root(_, _, _, _, _)
removes_loop_keeps_root(st, root, keys, indices, j) ==
    IF j > Len(indices) THEN Ret(st, root)
    ELSE Eval(remove(st, root, keys[indices[j]]), LAMBDA r :
              IF r.panic THEN r
              ELSE IF j = Len(indices) THEN Ret(r.st, r.val)
              ELSE removes_loop_keeps_root(r.st, root, keys, indices, j + 1))

\* batch remove: single-key removes in ascending key order
RECURSIVE removes_loop(_, _, _, _, _)
removes_loop(st, root, keys, indices, j) ==
    IF j > Len(indices) THEN Ret(st, root)
    ELSE Eval(remove(st, root, keys[indices[j]]), LAMBDA r :
              IF r.panic THEN r
              ELSE removes_loop(r.st, r.val, keys, indices, j + 1))

removes(st, root, keys) ==
    Eval(get_sorted_indices(keys), LAMBDA indices :
    Eval(removes_loop([st EXCEPT !.db = init_batch(st.db)], root, keys, indices, 1),
         LAMBDA r :
             IF r.panic THEN r
             ELSE Ret([r.st EXCEPT !.db = finish_batch(r.st.db)], r.val)))

\* encode_proof() that cuts a Hard node on the left whatever the direction
encode_proof_always_left(bytes, right) ==
    [right |-> FALSE, cut |-> Slice(bytes, HASH_LEN, Len(bytes))]

encode_proof(bytes, right) ==
    IF Node_from_bytes(bytes).kind = "Hard" /\ right
    THEN [right |-> TRUE, cut |-> Slice(bytes, 0, Len(bytes) - HASH_LEN - 1) \o <<1>>]
    ELSE [right |-> FALSE, cut |-> Slice(bytes, HASH_LEN, Len(bytes))]

\* gen_proof() that returns the entries collected so far on a miss
RECURSIVE gen_proof_partial(_, _, _, _)
gen_proof_partial(st, root, bits, proof) ==
    IF db_get(st.db, root) = None THEN Panic(st)
    ELSE
    Eval(db_get(st.db, root)[1], LAMBDA bytes :
    Eval(Node_cells_from_bytes(bytes, Bits_first(bits))[1], LAMBDA cell :
        IF cell = None THEN Panic(st)
        ELSE
        LET unit == cell[1]
        IN  Eval(Bits_len_common_bits(unit.bits, bits), LAMBDA n :
            IF n = Bits_len(bits)
            THEN Ret(st, Some(Append(proof, encode_proof(bytes, Bits_first(bits)))))
            ELSE IF n = Bits_len(unit.bits)
            THEN gen_proof_partial(st, unit.hash, Bits_shift(bits, n, FALSE),
                           Append(proof, encode_proof(bytes, Bits_first(bits))))
            ELSE Ret(st, Some(proof)))))

RECURSIVE gen_proof(_, _, _, _)
gen_proof(st, root, bits, proof) ==
    IF db_get(st.db, root) = None THEN Panic(st)
    ELSE
    Eval(db_get(st.db, root)[1], LAMBDA bytes :
    Eval(Node_cells_from_bytes(bytes, Bits_first(bits))[1], LAMBDA cell :
        IF cell = None THEN Panic(st)
        ELSE
        LET unit == cell[1]
        IN  Eval(Bits_len_common_bits(unit.bits, bits), LAMBDA n :
            IF n = Bits_len(bits)
            THEN Ret(st, Some(Append(proof, encode_proof(bytes, Bits_first(bits)))))
            ELSE IF n = Bits_len(unit.bits)
            THEN gen_proof(st, unit.hash, Bits_shift(bits, n, FALSE),
                           Append(proof, encode_proof(bytes, Bits_first(bits))))
            ELSE Ret(st, None))))

get_merkle_proof(st, root, key) ==
    IF root = None THEN Ret(st, None)
    ELSE gen_proof(st, root[1], Bits_new(key), <<>>)

\* proof.iter().rev().for_each: entries i, i-1, .., 1 are folded into the
\* running hash; tbl is the hasher table, extended by every byte string
\* digested on the way.  Result: [hash, tbl, panic].
RECURSIVE verify_fold(_, _, _, _)
verify_fold(tbl, hash, proof, i) ==
    IF i = 0 THEN [hash |-> hash, tbl |-> tbl, panic |-> FALSE]
    ELSE LET right == proof[i].right
             cut == proof[i].cut
             l == Len(cut)
         IN  IF right /\ l = 0 THEN [hash |-> hash, tbl |-> tbl, panic |-> TRUE]
             ELSE Eval(IF right
                       THEN Slice(cut, 0, l - 1) \o hash \o Slice(cut, l - 1, l)
                       ELSE hash \o cut,
                       LAMBDA o : verify_fold(digested(tbl, o), digest(tbl, o), proof, i - 1))

\* verify_proof() that skips the last proof entry (the deepest node)
verify_proof_skips_last(tbl, root, leaf, proof) ==
    IF proof = None THEN [val |-> FALSE, panic |-> FALSE]
    ELSE Eval(verify_fold(tbl, leaf, proof[1], Len(proof[1]) - 1), LAMBDA f :
              IF f.panic \/ root = None THEN [val |-> FALSE, panic |-> TRUE]
              ELSE [val |-> (root[1] = f.hash), panic |-> FALSE])

\* [val, panic]: the returned bool, or a panic
verify_proof(tbl, root, leaf, proof) ==
    IF proof = None THEN [val |-> FALSE, panic |-> FALSE]
    ELSE Eval(verify_fold(tbl, leaf, proof[1], Len(proof[1])), LAMBDA f :
              IF f.panic \/ root = None THEN [val |-> FALSE, panic |-> TRUE]
              ELSE [val |-> (root[1] = f.hash), panic |-> FALSE])

(***************************************************************************)
(* The state machine: one engine instance and one caller that threads the  *)
(* root.                                                                   *)
(***************************************************************************)

\* bounds of the model
MaxOps == 4
MaxBatch == 2

Key(b0, b1, bl) == <<b0, b1>> \o Repeat(0, HASH_LEN - 3) \o <<bl>>

\* 0x00..00, 0x40 00.., 0x80 00.., 0x40 80 00.., 0x00..01
Keys == {Key(0, 0, 0), Key(64, 0, 0), Key(128, 0, 0), Key(64, 128, 0), Key(0, 0, 1)}

\* 0x11..11, 0x22..22, ...
Leaf(i) == Repeat(17 * i, HASH_LEN)

Leaves == {Leaf(1), Leaf(2)}

\* batches of distinct keys
Batches == {ks \in UNION {[1..n -> Keys] : n \in 2..MaxBatch} :
                \A i, j \in DOMAIN ks : i # j => ks[i] # ks[j]}

Perms(n) == {p \in [1..n -> 1..n] : \A i, j \in 1..n : i # j => p[i] # p[j]}

VARIABLES
    db,     \* the backend: hash -> serialized node
    tbl,    \* the hasher: byte strings digested so far
    root,   \* the root the caller holds (Option<Hash>)
    kv,     \* the mapping the caller has built: key -> Option<leaf>
    op,     \* the last call: its name and arguments
    ret,    \* what the last call returned: [val, panic]
    nops    \* number of single-key mutations applied so far

vars == <<db, tbl, root, kv, op, ret, nops>>

engine == [db |-> db, tbl |-> tbl]

NoOp == [name |-> "new", root |-> None, keys |-> <<>>, leaves |-> <<>>]

Init ==
    /\ db = <<>>
    /\ tbl = <<>>
    /\ root = None
    /\ kv = [k \in Keys |-> None]
    /\ op = NoOp
    /\ ret = [val |-> None, panic |-> FALSE]
    /\ nops = 0

\* root = tree.insert(root, key, leaf)
Insert(key, leaf) ==
    /\ nops < MaxOps
    /\ \E r \in {insert(engine, root, key, leaf)} :
           /\ db' = r.st.db
           /\ tbl' = r.st.tbl
           /\ root' = r.val
           /\ ret' = [val |-> r.val, panic |-> r.panic]
    /\ kv' = [kv EXCEPT ![key] = Some(leaf)]
    /\ op' = [NoOp EXCEPT !.name = "insert", !.root = root,
                          !.keys = <<key>>, !.leaves = <<leaf>>]
    /\ nops' = nops + 1

\* tree.remove(root, key); the caller adopts the returned root when the key
\* was in the tree, and keeps its root when it was not
Remove(key) ==
    /\ nops < MaxOps
    /\ \E r \in {remove(engine, root, key)} :
           /\ db' = r.st.db
           /\ tbl' = r.st.tbl
           /\ root' = IF kv[key] # None THEN r.val ELSE root
           /\ ret' = [val |-> r.val, panic |-> r.panic]
    /\ kv' = [kv EXCEPT ![key] = None]
    /\ op' = [NoOp EXCEPT !.name = "remove", !.root = root, !.keys = <<key>>,
                          !.leaves = IF kv[key] # None THEN <<kv[key][1]>> ELSE <<>>]
    /\ nops' = nops + 1

\* root = tree.inserts(root, keys, leaves), the i-th key with the i-th leaf
Inserts(keys) ==
    /\ nops + Len(keys) <= MaxOps
    /\ \E leaves \in {[i \in 1..Len(keys) |-> Leaf(i)]} :
       \E r \in {inserts(engine, root, keys, leaves)} :
           /\ db' = r.st.db
           /\ tbl' = r.st.tbl
           /\ root' = r.val
           /\ ret' = [val |-> r.val, panic |-> r.panic]
           /\ kv' = [k \in Keys |->
                        IF \E i \in 1..Len(keys) : keys[i] = k
                        THEN Some(leaves[CHOOSE i \in 1..Len(keys) : keys[i] = k])
                        ELSE kv[k]]
           /\ op' = [NoOp EXCEPT !.name = "inserts", !.root = root,
                                 !.keys = keys, !.leaves = leaves]
    /\ nops' = nops + Len(keys)

\* tree.removes(root, keys); the caller adopts the returned root when every
\* key was in the tree, and keeps its root otherwise
Removes(keys) ==
    /\ nops + Len(keys) <= MaxOps
    /\ \E all \in {\A i \in 1..Len(keys) : kv[keys[i]] # None} :
       \E r \in {removes(engine, root, keys)} :
           /\ db' = r.st.db
           /\ tbl' = r.st.tbl
           /\ root' = IF all THEN r.val ELSE root
           /\ ret' = [val |-> r.val, panic |-> r.panic]
           /\ kv' = IF all
                    THEN [k \in Keys |->
                             IF \E i \in 1..Len(keys) : keys[i] = k THEN None ELSE kv[k]]
                    ELSE kv
           /\ op' = [NoOp EXCEPT !.name = "removes", !.root = root, !.keys = keys,
                                 !.leaves = IF all THEN [i \in 1..Len(keys) |-> kv[keys[i]][1]]
                                            ELSE <<>>]
    /\ nops' = nops + Len(keys)

Next ==
    \/ \E key \in Keys, leaf \in Leaves : Insert(key, leaf)
    \/ \E key \in Keys : Remove(key)
    \/ \E keys \in Batches : Inserts(keys)
    \/ \E keys \in Batches : Removes(keys)

Spec == Init /\ [][Next]_vars

\* bound on the mutating single-key calls that precede the reads
MaxReadOps == 2

\* tree.get(root, key)
Get(key) ==
    /\ \E r \in {get(engine, root, key)} :
           /\ db' = r.st.db
           /\ tbl' = r.st.tbl
           /\ ret' = [val |-> r.val, panic |-> r.panic]
    /\ op' = [NoOp EXCEPT !.name = "get", !.root = root, !.keys = <<key>>]
    /\ UNCHANGED <<root, kv, nops>>

\* tree.gets(root, keys)
Gets(keys) ==
    /\ \E r \in {gets(engine, root, keys)} :
           /\ db' = r.st.db
           /\ tbl' = r.st.tbl
           /\ ret' = [val |-> r.val, panic |-> r.panic]
    /\ op' = [NoOp EXCEPT !.name = "gets", !.root = root, !.keys = keys]
    /\ UNCHANGED <<root, kv, nops>>

\* tree.get_merkle_proof(root, key)
GetMerkleProof(key) ==
    /\ \E r \in {get_merkle_proof(engine, root, key)} :
           /\ db' = r.st.db
           /\ tbl' = r.st.tbl
           /\ ret' = [val |-> r.val, panic |-> r.panic]
    /\ op' = [NoOp EXCEPT !.name = "get_merkle_proof", !.root = root, !.keys = <<key>>]
    /\ UNCHANGED <<root, kv, nops>>

\* the mutating calls, followed by reads
NextReads ==
    \/ nops < MaxReadOps /\ Next
    \/ \E key \in Keys : Get(key)
    \/ \E keys \in Batches : Gets(keys)
    \/ \E key \in Keys : GetMerkleProof(key)

SpecReads == Init /\ [][NextReads]_vars

(***************************************************************************)
(* Properties                                                              *)
(***************************************************************************)

\* the last call was remove(op.root, k) of a key that was in the tree
RemovedPresent == op.name = "remove" /\ op.leaves # <<>>

\* the last call was remove(op.root, k) of a key that was not in the tree
RemovedAbsent == op.name = "remove" /\ op.leaves = <<>>

Present == {k \in Keys : kv[k] # None}

\* C1. Insert/get round-trip: under the root returned by the last insert,
\* every key resolves to the leaf of its most recent insert.
C1_InsertGetRoundTrip ==
    \A k \in Present :
        LET r == get(engine, root, k)
        IN  ~r.panic /\ r.val = kv[k]

C1_Witness ==
    /\ op.name = "insert"
    /\ kv[op.keys[1]] = Some(Leaf(2))
    /\ Cardinality(Present) >= 3
    /\ get(engine, op.root, op.keys[1]).val = Some(Leaf(1))

\* C2. Remove/get: after removing a key of the tree, the key no longer
\* resolves under the returned root and every other key of the tree still
\* resolves to its last inserted leaf.
C2_RemoveGet ==
    RemovedPresent =>
        /\ ~ret.panic
        /\ get(engine, ret.val, op.keys[1]) = Ret(engine, None)
        /\ \A k \in Keys \ {op.keys[1]} : get(engine, ret.val, k) = Ret(engine, kv[k])

C2_Witness ==
    /\ RemovedPresent
    /\ Cardinality(Present) >= 2

\* C3. Removing a key that is not in the tree loses no data: if such a
\* remove returns a present root, every key resolves under it as it did
\* under the root passed in.
C3_RemoveMissKeepsData ==
    (RemovedAbsent /\ op.root # None /\ ret.val # None) =>
        \A k \in Keys : get(engine, ret.val, k).val = get(engine, op.root, k).val

\* C4. Remove-miss result: removing a key that is not in the tree returns
\* the root passed in, and remove returns absent only when the tree is
\* empty after the call.
C4_RemoveMissReturnsRoot ==
    /\ RemovedAbsent => ret.val = op.root
    /\ (op.name = "remove" /\ ret.val = None) => Present = {}

\* C5. Empty invariant: the root the caller holds is absent exactly when
\* the tree holds no key.
C5_EmptyInvariant == (root = None) <=> (Present = {})

C5_Witness ==
    /\ RemovedPresent
    /\ root = None
    /\ nops >= 4
    /\ get(engine, op.root, op.keys[1]).val # None

\* the Merkle proof of key k under the root the caller holds
ProofOf(k) == get_merkle_proof(engine, root, k)

\* a proof that descends to the right of a Hard node and has several levels
DeepRightProof(p) == Len(p) >= 2 /\ \E i \in 1..Len(p) : p[i].right

\* C6. Proof soundness: for every key of the tree, get_merkle_proof returns
\* a proof and verify_proof accepts it for the key's leaf under the root.
C6_ProofSoundness ==
    \A k \in Present :
        LET p == ProofOf(k)
        IN  /\ ~p.panic
            /\ p.val # None
            /\ verify_proof(tbl, root, kv[k][1], p.val) = [val |-> TRUE, panic |-> FALSE]

C6_Witness ==
    /\ RemovedPresent
    /\ Cardinality(Present) >= 2
    /\ \E k \in Present :
          /\ DeepRightProof(ProofOf(k).val[1])
          /\ verify_proof(tbl, root, kv[k][1], ProofOf(k).val).val

\* hashes a forger may present as a leaf: the other leaves and every node hash
ForgedLeaves == Leaves \cup DOMAIN db

\* roots of other trees: every node hash of the backend (earlier roots included)
\* and the leaves themselves
OtherRoots == DOMAIN db \cup Leaves

\* C7. Proof non-forgery: a proof generated for a key of the tree is rejected
\* with any other leaf, and with any other root.
C7_ProofNonForgery ==
    \A k \in Present :
        LET p == ProofOf(k).val
            leaf == kv[k][1]
        IN  /\ \A l2 \in ForgedLeaves \ {leaf} :
                  verify_proof(tbl, root, l2, p) = [val |-> FALSE, panic |-> FALSE]
            /\ \A r2 \in OtherRoots \ {root[1]} :
                  verify_proof(tbl, Some(r2), leaf, p) = [val |-> FALSE, panic |-> FALSE]

C7_Witness ==
    /\ op.name = "insert"
    /\ op.root # None
    /\ op.root # root
    /\ \E k \in Present :
          /\ DeepRightProof(ProofOf(k).val[1])
          /\ verify_proof(tbl, root, kv[k][1], ProofOf(k).val).val
          /\ ~verify_proof(tbl, op.root, kv[k][1], ProofOf(k).val).val
          /\ \E l2 \in Leaves : ~verify_proof(tbl, root, l2, ProofOf(k).val).val

\* C8. Non-inclusion: get_merkle_proof returns a proof exactly for the keys
\* that get resolves; with the absent root it returns absent.
C8_NonInclusion ==
    \A k \in Keys :
        LET p == ProofOf(k)
        IN  /\ ~p.panic
            /\ (p.val # None) <=> (get(engine, root, k).val # None)
            /\ (p.val # None) <=> (k \in Present)
            /\ root = None => p.val = None

C8_Witness ==
    /\ RemovedPresent
    /\ root # None
    /\ ProofOf(op.keys[1]).val = None
    /\ get_merkle_proof(engine, op.root, op.keys[1]).val # None
    /\ \E k \in Keys \ {op.keys[1]} : k \notin Present /\ ProofOf(k).val = None

\* C9. verify_proof returns false, without failing, whenever the proof is
\* absent or the root is absent.
C9_VerifyAbsent ==
    \A k \in Keys, leaf \in Leaves :
        /\ verify_proof(tbl, root, leaf, None) = [val |-> FALSE, panic |-> FALSE]
        /\ verify_proof(tbl, None, leaf, None) = [val |-> FALSE, panic |-> FALSE]
        /\ verify_proof(tbl, None, leaf, ProofOf(k).val) = [val |-> FALSE, panic |-> FALSE]

\* C10. Batch order independence: the root returned by the last inserts call
\* is the root inserts returns for every permutation of its (key, leaf) pairs.
C10_BatchOrderIndependence ==
    op.name = "inserts" =>
        \A p \in Perms(Len(op.keys)) :
            inserts(engine, op.root, [i \in 1..Len(op.keys) |-> op.keys[p[i]]],
                    [i \in 1..Len(op.keys) |-> op.leaves[p[i]]]).val = ret.val

C10_Witness ==
    /\ op.name = "inserts"
    /\ op.root = None
    /\ ret.val # None
    /\ get_sorted_indices(op.keys) # [i \in 1..Len(op.keys) |-> i]

\* the indices of keys in ascending key order (keys are distinct)
Ascending(keys) ==
    CHOOSE p \in Perms(Len(keys)) :
        \A i, j \in 1..Len(keys) : i < j => bytes_less(keys[p[i]], keys[p[j]])

\* the result of calling insert for the keys p[1], .., p[j] one at a time,
\* each call on the root the previous call returned
RECURSIVE InsertedOneByOne(_, _, _, _, _, _)
InsertedOneByOne(st, r0, keys, leaves, p, j) ==
    IF j = 0 THEN Ret(st, r0)
    ELSE LET prev == InsertedOneByOne(st, r0, keys, leaves, p, j - 1)
         IN  IF prev.panic THEN prev
             ELSE insert(prev.st, prev.val, keys[p[j]], leaves[p[j]])

\* the same for remove
RECURSIVE RemovedOneByOne(_, _, _, _, _)
RemovedOneByOne(st, r0, keys, p, j) ==
    IF j = 0 THEN Ret(st, r0)
    ELSE LET prev == RemovedOneByOne(st, r0, keys, p, j - 1)
         IN  IF prev.panic THEN prev
             ELSE remove(prev.st, prev.val, keys[p[j]])

\* C11. Batch equals sequential: every inserts call returns the root, and
\* leaves the backend, that single inserts in ascending key order produce
\* from the same root; every removes call likewise with single removes.
C11_BatchEqualsSequential ==
    [][ /\ op'.name = "inserts" =>
              LET s == InsertedOneByOne(engine, root, op'.keys, op'.leaves,
                                        Ascending(op'.keys), Len(op'.keys))
              IN  ~ret'.panic /\ ret'.val = s.val /\ db' = s.st.db
        /\ op'.name = "removes" =>
              LET s == RemovedOneByOne(engine, root, op'.keys,
                                       Ascending(op'.keys), Len(op'.keys))
              IN  ~ret'.panic /\ ret'.val = s.val /\ db' = s.st.db
      ]_vars

C11_Witness ==
    /\ op.name = "removes"
    /\ op.leaves # <<>>
    /\ Ascending(op.keys) # [i \in 1..Len(op.keys) |-> i]
    /\ ret.val = None
    /\ get(engine, op.root, op.keys[1]).val # None

\* the root after insert(None, k1, a) and then insert(_, k2, b)
TwoInserts(k1, a, k2, b) ==
    LET r1 == insert(engine, None, k1, a)
    IN  insert(r1.st, r1.val, k2, b)

\* C12. Remove collapses: when k1 and then k2 were inserted from the absent
\* root, the two keys sharing their first bit, remove(root, k2) returns the
\* root of the tree that holds k1 alone.
C12_RemoveCollapses ==
    \A k1 \in Keys :
        ( /\ RemovedPresent
          /\ Present = {k1}
          /\ bit(k1, 0) = bit(op.keys[1], 0)
          /\ op.root = TwoInserts(k1, kv[k1][1], op.keys[1], op.leaves[1]).val )
        => ret.val = insert(engine, None, k1, kv[k1][1]).val

\* the engine after the step
engine_next == [db |-> db', tbl |-> tbl']

\* C13. Old roots stay readable: a call only adds entries to the backend,
\* each under the digest of its bytes, and leaves every stored entry as it
\* was; every key resolves under every stored root as it did before the call.
C13_OldRootsReadable ==
    [][ /\ \A h \in DOMAIN db : h \in DOMAIN db' /\ db'[h] = db[h]
        /\ \A h \in DOMAIN db' : digest(tbl', db'[h]) = h
        /\ \A h \in DOMAIN db : \A k \in Keys :
              get(engine_next, Some(h), k).val = get(engine, Some(h), k).val
      ]_vars

C13_Witness ==
    /\ RemovedPresent
    /\ root # None
    /\ get(engine, root, op.keys[1]).val = None
    /\ get(engine, op.root, op.keys[1]).val = Some(op.leaves[1])
    /\ \A k \in Present : get(engine, op.root, k).val = kv[k]

\* the node stored under hash h
NodeAt(h) == Node_from_bytes(db[h])

\* the units of a node
Cells(node) == IF node.kind = "Soft" THEN {node.lc[1]} ELSE {node.lc[1], node.rc[1]}

\* a unit points at a node when its hash is stored, and at a leaf otherwise
IsNode(h) == h \in DOMAIN db

\* the tree under h has a Soft node whose child is a Soft node
RECURSIVE HasSoftChain(_)
HasSoftChain(h) ==
    LET node == NodeAt(h)
    IN  \/ /\ node.kind = "Soft"
           /\ IsNode(node.lc[1].hash)
           /\ NodeAt(node.lc[1].hash).kind = "Soft"
        \/ \E u \in Cells(node) : IsNode(u.hash) /\ HasSoftChain(u.hash)

\* C14. Map refinement: under the root the caller holds, every key of the
\* key set resolves, without failing, to what the abstract map holds for it:
\* the last inserted leaf, or absent when never inserted or removed since.
C14_MapRefinement ==
    \A k \in Keys : get(engine, root, k) = Ret(engine, kv[k])

C14_Witness ==
    /\ op.name = "insert"
    /\ op.root # None
    /\ HasSoftChain(op.root[1])
    /\ get(engine, op.root, op.keys[1]).val = None
    /\ Cardinality(Present) >= 2
    /\ \E k \in Keys : kv[k] = None /\ get(engine, op.root, k).val = None

\* C15. Maximal path compression: in the tree under the root the caller
\* holds, no Soft node is the child of a Soft node.
C15_MaximalCompression ==
    root # None => ~HasSoftChain(root[1])

\* the orders in which the keys of the tree can be inserted
Orders(ks) == {s \in [1..Cardinality(ks) -> ks] : \A i, j \in DOMAIN s : i # j => s[i] # s[j]}

\* the root after single inserts of the keys of s, in the order of s, from the
\* absent root, each key with the leaf the tree holds for it
RECURSIVE InsertedInOrder(_, _)
InsertedInOrder(s, j) ==
    IF j = 0 THEN Ret(engine, None)
    ELSE LET prev == InsertedInOrder(s, j - 1)
         IN  IF prev.panic THEN prev
             ELSE insert(prev.st, prev.val, s[j], kv[s[j]][1])

\* C16. Insertion-order independence of the root: when the root the caller
\* holds is the root of single inserts of its keys in some order, single
\* inserts of the same pairs in every other order return the same root.
C16_OrderIndependence ==
    \A s \in Orders(Present) :
        root = InsertedInOrder(s, Len(s)).val =>
            \A t \in Orders(Present) : InsertedInOrder(t, Len(t)).val = root

\* C17. Canonical child order: every Hard node of the backend stores first a
\* unit whose path starts with bit 0 and then a unit whose path starts with
\* bit 1, and its bytes are what to_bytes gives for its two units passed to
\* Node::new in either order.
C17_CanonicalChildOrder ==
    \A h \in DOMAIN db :
        LET node == NodeAt(h)
        IN  node.kind = "Hard" =>
                /\ ~Bits_first(node.lc[1].bits)
                /\ Bits_first(node.rc[1].bits)
                /\ Node_to_bytes(Node_new(node.lc, node.rc)) = db[h]
                /\ Node_to_bytes(Node_new(node.rc, node.lc)) = db[h]

C17_Witness ==
    /\ op.name = "insert"
    /\ op.root # None
    /\ NodeAt(op.root[1]).kind = "Soft"
    /\ Bits_first(NodeAt(op.root[1]).lc[1].bits)
    /\ ~bit(op.keys[1], 0)
    /\ NodeAt(root[1]).kind = "Hard"
    /\ NodeAt(root[1]).lc[1].hash = op.leaves[1]

\* every edge of the tree under h is non-empty, and the edge lengths from the
\* root to each leaf sum to the key length; consumed is the sum down to h
RECURSIVE PathLengthsOK(_, _)
PathLengthsOK(h, consumed) ==
    \A u \in Cells(NodeAt(h)) :
        /\ Bits_len(u.bits) > 0
        /\ IF IsNode(u.hash)
           THEN /\ consumed + Bits_len(u.bits) < HASH_LEN * 8
                /\ PathLengthsOK(u.hash, consumed + Bits_len(u.bits))
           ELSE consumed + Bits_len(u.bits) = HASH_LEN * 8

\* the largest number of edges between h and a leaf
RECURSIVE MaxEdges(_)
MaxEdges(h) ==
    LET below == {IF IsNode(u.hash) THEN MaxEdges(u.hash) ELSE 0 : u \in Cells(NodeAt(h))}
    IN  1 + CHOOSE m \in below : \A x \in below : x <= m

\* C18. Path length invariant: in the tree under the root the caller holds,
\* and under the root the last call returned, every edge has a non-empty bit
\* range and the edge lengths from the root to each leaf sum to HASH_LEN * 8.
C18_PathLength ==
    \A r \in {root, ret.val} : r # None => PathLengthsOK(r[1], 0)

C18_Witness ==
    /\ RemovedPresent
    /\ root # None
    /\ MaxEdges(root[1]) >= 3
    /\ PathLengthsOK(root[1], 0)

\* C19. Idempotent insert: inserting a key of the tree again with the leaf it
\* already has returns the root the caller holds and leaves the backend as
\* it is.
C19_IdempotentInsert ==
    \A k \in Present :
        LET r == insert(engine, root, k, kv[k][1])
        IN  ~r.panic /\ r.val = root /\ r.st.db = db

C19_Witness ==
    /\ op.name = "insert"
    /\ op.root # None
    /\ get(engine, op.root, op.keys[1]).val = Some(op.leaves[1])
    /\ root = op.root
    /\ MaxEdges(root[1]) >= 2

ReadNames == {"get", "gets", "get_merkle_proof"}

\* C20. Reads are read-only: a get, gets or get_merkle_proof call leaves the
\* backend as it was, and gets returns one result per input key, in input
\* order, each what get returns for that key.
C20_ReadsAreReadOnly ==
    [][ op'.name \in ReadNames =>
          /\ db' = db
          /\ ~ret'.panic
          /\ op'.name = "gets" =>
                /\ Len(ret'.val) = Len(op'.keys)
                /\ \A i \in 1..Len(op'.keys) :
                      ret'.val[i] = get(engine, root, op'.keys[i]).val
      ]_vars

C20_Witness ==
    /\ op.name = "gets"
    /\ root # None
    /\ Len(ret.val) = 2
    /\ ret.val[1] = None
    /\ ret.val[2] # None
    /\ ret.val[2] = kv[op.keys[2]]

\* the recursive functions of the engine
Recursive == {"put", "find_key", "delete_key", "gen_proof"}

\* the remaining bit path lengths that the calls of fn receive, outermost call
\* first, when fn is called on the node root with the path bits: fn recurses
\* into unit.hash with bits.shift(n, false) when n == unit.bits.len() and no
\* earlier arm matches (n == 0 for put, n == bits.len() for all four).  The
\* list is cut after HASH_LEN * 8 + 1 calls.
RECURSIVE calls(_, _, _, _)
calls(fn, h, bits, made) ==
    LET here == Append(made, Bits_len(bits))
    IN  IF Len(here) > HASH_LEN * 8 \/ db_get(db, h) = None THEN here
        ELSE LET cell == Node_cells_from_bytes(db_get(db, h)[1], Bits_first(bits))[1]
                 n == Bits_len_common_bits(cell[1].bits, bits)
             IN  IF cell = None THEN here
                 ELSE IF (fn = "put" /\ n = 0) \/ n = Bits_len(bits) THEN here
                 ELSE IF n = Bits_len(cell[1].bits)
                 THEN calls(fn, cell[1].hash, Bits_shift(bits, n, FALSE), here)
                 ELSE here

\* C21. Termination and depth bound: under the root the caller holds and under
\* the root the last call returned, put, find_key, delete_key and gen_proof
\* called with any key make at most HASH_LEN * 8 nested calls, and every
\* recursive call receives a non-empty bit path strictly shorter than its
\* caller's.
C21_DepthBound ==
    \A r \in {root, ret.val} : r # None =>
        \A fn \in Recursive, k \in Keys :
            LET c == calls(fn, r[1], Bits_new(k), <<>>)
            IN  /\ Len(c) <= HASH_LEN * 8
                /\ \A i \in 1..Len(c) : c[i] > 0
                /\ \A i \in 1..(Len(c) - 1) : c[i + 1] < c[i]

C21_Witness ==
    /\ op.name = "insert"
    /\ op.root # None
    /\ Len(calls("put", op.root[1], Bits_new(op.keys[1]), <<>>)) >= 3
    /\ Len(calls("find_key", root[1], Bits_new(op.keys[1]), <<>>)) >= 3
    /\ get(engine, root, op.keys[1]).val = Some(op.leaves[1])

\* the nodes put(st, root, bits, leaf) passes to put_node, in call order
RECURSIVE put_nodes(_, _, _, _)
put_nodes(st, h, bits, leaf) ==
    IF db_get(st.db, h) = None THEN <<>>
    ELSE
    LET cells == Node_cells_from_bytes(db_get(st.db, h)[1], Bits_first(bits))
        lc == cells[1]
        rc == cells[2]
        unit == lc[1]
        n == Bits_len_common_bits(unit.bits, bits)
        below == put(st, unit.hash, Bits_shift(bits, n, FALSE), leaf)
        lu == Unit(unit.hash, Bits_shift(unit.bits, n, FALSE))
        ru == Unit(leaf, Bits_shift(bits, n, FALSE))
        split == put_node(st, Node_new(Some(lu), Some(ru)))
    IN  IF lc = None THEN <<>>
        ELSE IF n = 0 THEN <<Node_new(lc, Some(Unit(leaf, bits)))>>
        ELSE IF n = Bits_len(bits) THEN <<Node_new(Some(Unit(leaf, bits)), rc)>>
        ELSE IF n = Bits_len(unit.bits)
        THEN put_nodes(st, unit.hash, Bits_shift(bits, n, FALSE), leaf)
             \o (IF below.panic \/ below.val = None THEN <<>>
                 ELSE <<Node_new(Some(Unit(below.val[1], unit.bits)), rc)>>)
        ELSE <<Node_new(Some(lu), Some(ru)),
               Node_new(Some(Unit(split.val[1], Bits_shift(unit.bits, n, TRUE))), rc)>>

\* the nodes delete_key(st, root, bits) passes to put_node, in call order
RECURSIVE delete_key_nodes(_, _, _)
delete_key_nodes(st, h, bits) ==
    IF db_get(st.db, h) = None THEN <<>>
    ELSE
    LET cells == Node_cells_from_bytes(db_get(st.db, h)[1], Bits_first(bits))
        lc == cells[1]
        rc == cells[2]
        unit == lc[1]
        n == Bits_len_common_bits(unit.bits, bits)
        below == delete_key(st, unit.hash, Bits_shift(bits, n, FALSE))
    IN  IF lc = None THEN <<>>
        ELSE IF n = Bits_len(bits)
        THEN (IF rc # None THEN <<Node_new(None, rc)>> ELSE <<>>)
        ELSE IF n = Bits_len(unit.bits)
        THEN delete_key_nodes(st, unit.hash, Bits_shift(bits, n, FALSE))
             \o (IF below.panic \/ (below.val = None /\ rc = None) THEN <<>>
                 ELSE IF below.val = None THEN <<Node_new(None, rc)>>
                 ELSE <<Node_new(Some(Unit(below.val[1], unit.bits)), rc)>>)
        ELSE <<>>

\* the nodes a single-key call constructs and writes
insert_nodes(st, r, key, leaf) ==
    IF r = None THEN <<Node_new(Some(Unit(leaf, Bits_new(key))), None)>>
    ELSE put_nodes(st, r[1], Bits_new(key), leaf)

remove_nodes(st, r, key) ==
    IF r = None THEN <<>> ELSE delete_key_nodes(st, r[1], Bits_new(key))

\* a Hard node with the unit whose path starts with bit 0 first
Canonical(node) ==
    IF node.kind = "Hard" /\ ~Bits_first(node.rc[1].bits)
    THEN Hard(node.rc, node.lc)
    ELSE node

\* from_bytes(to_bytes(node)) is node up to the order of its children, and
\* every edge carries as many path bytes as parse_bytes reads for its range
RoundTrip(node) ==
    /\ node.kind \in {"Soft", "Hard"}
    /\ Node_from_bytes(Node_to_bytes(node)) = Canonical(node)
    /\ \A u \in Cells(node) :
          Len(u.bits.path) = nbytes_across(u.bits.range.start, u.bits.range.end)

\* the nodes the step constructed, when it was a single-key call
StepNodes ==
    IF op'.name = "insert" THEN insert_nodes(engine, root, op'.keys[1], op'.leaves[1])
    ELSE IF op'.name = "remove" THEN remove_nodes(engine, root, op'.keys[1])
    ELSE <<>>

\* C22. Serialization round-trip: every node an insert or remove call
\* constructs is written to the backend under the digest of its bytes, these
\* are all the entries the call adds, and from_bytes(to_bytes(n)) gives back
\* the node: same variant, child hashes, start, end and path bytes per edge,
\* up to the order of the two children.
C22_SerializationRoundTrip ==
    [][ op'.name \in {"insert", "remove"} =>
          Eval(StepNodes, LAMBDA nodes :
          Eval([i \in 1..Len(nodes) |-> Node_to_bytes(nodes[i])], LAMBDA written :
              /\ \A i \in 1..Len(nodes) :
                    /\ RoundTrip(nodes[i])
                    /\ \E h \in DOMAIN db' : db'[h] = written[i]
              /\ \A h \in DOMAIN db' \ DOMAIN db :
                    \E i \in 1..Len(nodes) : written[i] = db'[h]))
      ]_vars

C22_Witness ==
    /\ op.name = "insert"
    /\ op.root # None
    /\ Len(insert_nodes(engine, op.root, op.keys[1], op.leaves[1])) >= 3
    /\ \E i \in 1..3 :
          LET node == insert_nodes(engine, op.root, op.keys[1], op.leaves[1])[i]
          IN  /\ node.kind = "Hard"
              /\ node.lc[1].bits.range.start % 8 # 0
              /\ Bits_first(node.lc[1].bits)
              /\ RoundTrip(node)

====
